---- MODULE Spec2Model ----
(***************************************************************************)
(* Conversion of NetworkPolicyPeer between the external v1 schema (the     *)
(* deprecated singular IPBlock next to the IPBlocks list) and the internal *)
(* networking schema (IPBlocks only), pkg/apis/networking/v1/conversion.go *)
(*                                                                         *)
(* v1.NetworkPolicyPeer holds POINTERS to v1.IPBlock (IPBlock *IPBlock,    *)
(* IPBlocks []*IPBlock) and the code compares two of them with !=, so the  *)
(* external peer is modelled with an explicit heap: heap[a] is the         *)
(* v1.IPBlock stored at address a, and the fields hold addresses.  The     *)
(* pointers of the internal peer are only ever dereferenced, so the        *)
(* internal list is modelled as the sequence of the blocks pointed to.     *)
(***************************************************************************)
EXTENDS Integers, Sequences, FiniteSets, TLC

\* ------------------------------------------------------------------ bounds
\* longest IPBlocks list of an input peer
MaxBlocks == 2
\* number of conversions chained in one behaviour (2 = one round trip)
MaxCalls == 2

\* the CIDR strings the inputs are built from ("" is the zero value)
CIDRs == {"", "1.1.1.1", "2.2.2.2"}

\* the nil pointer; addresses of allocated blocks are 1, 2, ...
NilPtr == 0

\* what the generated baseline copy can return: nil, or a failure of a nested conversion
AutoConvertErrors == {"errNestedA", "errNestedB"}
AutoConvertResults == {"nil"} \cup AutoConvertErrors

VARIABLES
    v1Peer,     \* the external peer: [heap, IPBlock, IPBlocks]
    netPeer,    \* the internal peer: [IPBlocks]
    trace,      \* the calls made so far: <<[op, auto, err], ...>>
    lastIn,     \* the `in` argument of the last call
    baseline,   \* the `out` value as the baseline copy of the last call left it
    input       \* the peers the behaviour started from

\* The change-cause recorder of genericclioptions (record_flags.go) is a
\* second, independent program; its state is idle while peers are converted.
VARIABLES
    rf,         \* the *RecordFlags receiver: NilRecordFlags or [Record, Update, changeCause]
    osArgs,     \* os.Args, the command line as a list of tokens
    flags,      \* cmd.Flags(): is "record" defined, has it been set (Changed),
                \* and has the command been executed, parsing its command line
    objects,    \* the heap of runtime objects: objects[a] is the annotation map of the object at a
    recorder,   \* what ToRecorder returned
    patch,      \* what MakeRecordMergePatch returned
    pc,         \* how far the command has got
    start       \* the flags and the object the behaviour started from

convVars == <<v1Peer, netPeer, trace, lastIn, baseline, input>>
recordVars == <<rf, osArgs, flags, objects, recorder, patch, pc, start>>
vars == <<v1Peer, netPeer, trace, lastIn, baseline, input,
          rf, osArgs, flags, objects, recorder, patch, pc, start>>

\* a nil *RecordFlags
NilRecordFlags == [nil |-> TRUE]

\* no recorder program is running
RecordIdle ==
    /\ rf = NilRecordFlags
    /\ osArgs = <<>>
    /\ flags = [defined |-> FALSE, changed |-> FALSE, executed |-> FALSE]
    /\ objects = <<>>
    /\ recorder = [kind |-> "none"]
    /\ patch = [kind |-> "none"]
    /\ pc = "idle"
    /\ start = [rf |-> NilRecordFlags]

\* ------------------------------------------------------------------ values
IPBlockOf(cidr) == [CIDR |-> cidr]

Range(s) == {s[i] : i \in 1..Len(s)}

SeqsUpTo(S, n) == UNION {[1..m -> S] : m \in 0..n}

\* the CIDRs of a list of internal blocks
CIDRsOf(blocks) == [i \in 1..Len(blocks) |-> blocks[i].CIDR]

\* the CIDRs of the blocks an external list points to
V1CIDRs(p) == [i \in 1..Len(p.IPBlocks) |-> p.heap[p.IPBlocks[i]].CIDR]

\* v1.NetworkPolicyPeer{}: no block allocated, both fields nil
ZeroV1Peer == [heap |-> <<>>, IPBlock |-> NilPtr, IPBlocks |-> <<>>]

\* v1.NetworkPolicyPeer{IPBlock: &v1.IPBlock{}}: an output value whose singular
\* field the caller has allocated
AllocatedV1Peer == [heap |-> <<IPBlockOf("")>>, IPBlock |-> 1, IPBlocks |-> <<>>]

\* networking.NetworkPolicyPeer{}
ZeroNetPeer == [IPBlocks |-> <<>>]

\* The external inputs: a list of separately allocated blocks at addresses
\* 1..n, and a singular field that is nil, the very block IPBlocks[0] points
\* to, or a block of its own at address n+1.
V1Inputs ==
    { [heap |-> [i \in 1..Len(cs) |-> IPBlockOf(cs[i])],
       IPBlock |-> NilPtr,
       IPBlocks |-> [i \in 1..Len(cs) |-> i]] : cs \in SeqsUpTo(CIDRs, MaxBlocks) }
    \cup
    { [heap |-> [i \in 1..Len(cs) |-> IPBlockOf(cs[i])],
       IPBlock |-> 1,
       IPBlocks |-> [i \in 1..Len(cs) |-> i]] : cs \in SeqsUpTo(CIDRs, MaxBlocks) \ {<<>>} }
    \cup
    { [heap |-> Append([i \in 1..Len(cs) |-> IPBlockOf(cs[i])], IPBlockOf(c)),
       IPBlock |-> Len(cs) + 1,
       IPBlocks |-> [i \in 1..Len(cs) |-> i]] : cs \in SeqsUpTo(CIDRs, MaxBlocks), c \in CIDRs }

NetInputs ==
    { [IPBlocks |-> [i \in 1..Len(cs) |-> IPBlockOf(cs[i])]] : cs \in SeqsUpTo(CIDRs, MaxBlocks) }

\* --------------------------------------------------- the baseline copies
\* autoConvert_v1_NetworkPolicyPeer_To_networking_NetworkPolicyPeer (generated):
\* copies every block of in.IPBlocks, CIDR verbatim and in order, into
\* out.IPBlocks.  When a nested conversion fails it returns that failure
\* (res) having copied only the first k blocks.
autoConvert_v1_NetworkPolicyPeer_To_networking_NetworkPolicyPeer(in, out, res, k) ==
    LET n == IF res = "nil" THEN Len(in.IPBlocks) ELSE k
    IN  [out |-> [out EXCEPT !.IPBlocks =
                      [i \in 1..n |-> IPBlockOf(in.heap[in.IPBlocks[i]].CIDR)]],
         err |-> res]

\* autoConvert_networking_NetworkPolicyPeer_To_v1_NetworkPolicyPeer (generated):
\* copies every block of in.IPBlocks into newly allocated v1 blocks that
\* out.IPBlocks points to.  The internal type has no singular field, so
\* out.IPBlock is left as the caller passed it.
autoConvert_networking_NetworkPolicyPeer_To_v1_NetworkPolicyPeer(in, out, res, k) ==
    LET n == IF res = "nil" THEN Len(in.IPBlocks) ELSE k
        base == Len(out.heap)
    IN  [out |-> [out EXCEPT
                    !.heap = out.heap \o [i \in 1..n |-> IPBlockOf(in.IPBlocks[i].CIDR)],
                    !.IPBlocks = [i \in 1..n |-> base + i]],
         err |-> res]

\* ------------------------------------------------------ conversion.go
\* line 30 with the list test off by one (len(in.IPBlocks) > 1)
PrimaryOverridesList_LongListOnly(in) ==
    /\ Len(in.heap[in.IPBlock].CIDR) > 0
    /\ Len(in.IPBlocks) > 1
    /\ in.IPBlock # in.IPBlocks[1]

\* line 30: the singular field is set, the list is set, and the two are
\* not the same pointer
PrimaryOverridesList(in) ==
    /\ Len(in.heap[in.IPBlock].CIDR) > 0
    /\ Len(in.IPBlocks) > 0
    /\ in.IPBlock # in.IPBlocks[1]

\* line 39 with the CIDR test inverted (len(in.IPBlock.CIDR) == 0)
PrimaryOnly_EmptyCIDR(in) ==
    /\ Len(in.heap[in.IPBlock].CIDR) = 0
    /\ Len(in.IPBlocks) = 0

\* line 39 without the CIDR test
PrimaryOnly_AnyCIDR(in) == Len(in.IPBlocks) = 0

\* line 39: the singular field is set and the list is empty
PrimaryOnly(in) ==
    /\ Len(in.heap[in.IPBlock].CIDR) > 0
    /\ Len(in.IPBlocks) = 0

\* lines 31-35 and 40-44: a new one-element list holding the singular field's CIDR
SinglePrimary(in) == <<IPBlockOf(in.heap[in.IPBlock].CIDR)>>

\* lines 30-45, reached with in.IPBlock # nil
OverlayToNetworking(in, out) ==
    LET out1 == IF PrimaryOverridesList(in)
                THEN [out EXCEPT !.IPBlocks = SinglePrimary(in)]
                ELSE out
    IN  IF PrimaryOnly(in)
        THEN [out1 EXCEPT !.IPBlocks = SinglePrimary(in)]
        ELSE out1

\* lines 25-47 without the early return of lines 26-28: the failure is kept
\* for the return value but the overlay is applied all the same
Convert_v1_NetworkPolicyPeer_To_networking_NetworkPolicyPeer_NoEarlyReturn(in, out, res, k) ==
    LET a == autoConvert_v1_NetworkPolicyPeer_To_networking_NetworkPolicyPeer(in, out, res, k)
    IN  IF in.IPBlock = NilPtr
        THEN [out |-> a.out, err |-> "panic", baseline |-> a.out]
        ELSE [out |-> OverlayToNetworking(in, a.out), err |-> a.err, baseline |-> a.out]

\* lines 25-47.  err is "nil", the failure of the baseline copy, or "panic":
\* line 30 reads in.IPBlock.CIDR first, a nil pointer dereference when the
\* singular field is unset.
Convert_v1_NetworkPolicyPeer_To_networking_NetworkPolicyPeer(in, out, res, k) ==
    LET a == autoConvert_v1_NetworkPolicyPeer_To_networking_NetworkPolicyPeer(in, out, res, k)
    IN  IF a.err # "nil"
        THEN [out |-> a.out, err |-> a.err, baseline |-> a.out]
        ELSE IF in.IPBlock = NilPtr
        THEN [out |-> a.out, err |-> "panic", baseline |-> a.out]
        ELSE [out |-> OverlayToNetworking(in, a.out), err |-> "nil", baseline |-> a.out]

\* line 56 with the test off by one (len(in.IPBlocks) >= 0)
HasBlocks_OffByOne(in) == Len(in.IPBlocks) >= 0

\* line 56
HasBlocks(in) == Len(in.IPBlocks) > 0

\* line 57: out.IPBlock.CIDR = in.IPBlocks[0].CIDR, with Go's run-time checks:
\* indexing an empty slice and dereferencing a nil out.IPBlock both panic.
SetPrimary(in, out) ==
    IF Len(in.IPBlocks) = 0 \/ out.IPBlock = NilPtr
    THEN [out |-> out, err |-> "panic"]
    ELSE [out |-> [out EXCEPT !.heap[out.IPBlock].CIDR = in.IPBlocks[1].CIDR],
          err |-> "nil"]

\* lines 49-60
Convert_networking_NetworkPolicyPeer_To_v1_NetworkPolicyPeer(in, out, res, k) ==
    LET a == autoConvert_networking_NetworkPolicyPeer_To_v1_NetworkPolicyPeer(in, out, res, k)
    IN  IF a.err # "nil"
        THEN [out |-> a.out, err |-> a.err, baseline |-> a.out]
        ELSE IF HasBlocks(in)
        THEN LET r == SetPrimary(in, a.out)
             IN  [out |-> r.out, err |-> r.err, baseline |-> a.out]
        ELSE [out |-> a.out, err |-> "nil", baseline |-> a.out]

\* ------------------------------------------------------------- behaviour
\* A behaviour starts from one input peer, external or internal; the other
\* peer is the zero value.
Init ==
    /\ \/ v1Peer \in V1Inputs /\ netPeer = ZeroNetPeer
       \/ v1Peer = ZeroV1Peer /\ netPeer \in NetInputs
    /\ trace = <<>>
    /\ lastIn = ZeroNetPeer
    /\ baseline = ZeroNetPeer
    /\ input = [v1 |-> v1Peer, net |-> netPeer]
    /\ RecordIdle

\* a panic ends the program
Running == \A i \in 1..Len(trace) : trace[i].err # "panic"

\* A caller converts the external peer into a new networking.NetworkPolicyPeer{}.
ConvertV1ToNetworking ==
    /\ Running
    /\ Len(trace) < MaxCalls
    /\ \E res \in AutoConvertResults, k \in 0..Len(v1Peer.IPBlocks) :
         /\ res = "nil" => k = Len(v1Peer.IPBlocks)
         /\ LET r == Convert_v1_NetworkPolicyPeer_To_networking_NetworkPolicyPeer(
                         v1Peer, ZeroNetPeer, res, k)
            IN  /\ netPeer' = r.out
                /\ baseline' = r.baseline
                /\ trace' = Append(trace, [op |-> "toNetworking", auto |-> res, err |-> r.err])
    /\ lastIn' = v1Peer
    /\ UNCHANGED <<v1Peer, input>>
    /\ UNCHANGED recordVars

\* A caller converts the internal peer into a newly created external value:
\* v1.NetworkPolicyPeer{}, or one whose singular field it has allocated.
ConvertNetworkingToV1 ==
    /\ Running
    /\ Len(trace) < MaxCalls
    /\ \E res \in AutoConvertResults, k \in 0..Len(netPeer.IPBlocks),
          out \in {ZeroV1Peer, AllocatedV1Peer} :
         /\ res = "nil" => k = Len(netPeer.IPBlocks)
         /\ LET r == Convert_networking_NetworkPolicyPeer_To_v1_NetworkPolicyPeer(
                         netPeer, out, res, k)
            IN  /\ v1Peer' = r.out
                /\ baseline' = r.baseline
                /\ trace' = Append(trace, [op |-> "toV1", auto |-> res, err |-> r.err])
    /\ lastIn' = netPeer
    /\ UNCHANGED <<netPeer, input>>
    /\ UNCHANGED recordVars

Next ==
    \/ ConvertV1ToNetworking
    \/ ConvertNetworkingToV1

Spec == Init /\ [][Next]_vars

\* ---------------------------------------------------------- vocabulary
Called == Len(trace) > 0
Last == trace[Len(trace)]
LastWas(op) == Called /\ Last.op = op
\* the last call was `op`, its baseline copy succeeded
Copied(op) == LastWas(op) /\ Last.auto = "nil"
\* ... and it returned success
Converted(op) == Copied(op) /\ Last.err = "nil"

\* the singular field points to a block
PrimarySet(p) == p.IPBlock # NilPtr
PrimaryCIDR(p) == p.heap[p.IPBlock].CIDR
\* the singular field points to a block with a non-empty CIDR
HasPrimary(p) == PrimarySet(p) /\ PrimaryCIDR(p) # ""

\* every CIDR an external peer holds, in the singular field or in the list
V1PeerCIDRs(p) ==
    Range(V1CIDRs(p)) \cup (IF PrimarySet(p) THEN {PrimaryCIDR(p)} ELSE {})

\* s is t with some elements left out, the rest in t's order
RECURSIVE IsSubseq(_, _)
IsSubseq(s, t) ==
    IF s = <<>> THEN TRUE
    ELSE IF t = <<>> THEN FALSE
    ELSE IF Head(s) = Head(t) THEN IsSubseq(Tail(s), Tail(t))
    ELSE IsSubseq(s, Tail(t))

\* the behaviour is the round trip op1 then op2, both baseline copies succeeded
RoundTrip(op1, op2) ==
    /\ Len(trace) = 2
    /\ trace[1].op = op1 /\ trace[1].auto = "nil"
    /\ trace[2].op = op2 /\ trace[2].auto = "nil"

\* ---------------------------------------------------------------- claims

\* C1: external to internal, singular field with a non-empty CIDR, non-empty
\* list, and the singular field's CIDR differs from the first block's: the
\* result is exactly the one-element list holding the singular field's CIDR.
C1_MismatchedPrimaryReplacesList ==
    ( /\ Copied("toNetworking")
      /\ HasPrimary(lastIn)
      /\ Len(lastIn.IPBlocks) > 0
      /\ PrimaryCIDR(lastIn) # V1CIDRs(lastIn)[1] )
    => /\ Last.err = "nil"
       /\ CIDRsOf(netPeer.IPBlocks) = <<PrimaryCIDR(lastIn)>>

C1_Witness ==
    /\ Converted("toNetworking")
    /\ HasPrimary(lastIn)
    /\ Len(lastIn.IPBlocks) = 2
    /\ PrimaryCIDR(lastIn) # V1CIDRs(lastIn)[1]
    /\ V1CIDRs(lastIn)[2] # ""
    /\ netPeer.IPBlocks = <<IPBlockOf(PrimaryCIDR(lastIn))>>

\* C2: external to internal, non-empty list, and the singular field holds the
\* same CIDR as the first block (the same block or a separately constructed
\* one): the result is the input list unchanged.
C2_MatchingPrimaryKeepsList ==
    ( /\ Copied("toNetworking")
      /\ PrimarySet(lastIn)
      /\ Len(lastIn.IPBlocks) >= 1
      /\ PrimaryCIDR(lastIn) = V1CIDRs(lastIn)[1] )
    => /\ Last.err = "nil"
       /\ CIDRsOf(netPeer.IPBlocks) = V1CIDRs(lastIn)

\* C3: internal to external, non-empty list: the result's singular field
\* holds the first block's CIDR and the result's list equals the input list.
C3_PrimaryIsFirstBlock ==
    ( /\ Copied("toV1")
      /\ Len(lastIn.IPBlocks) > 0 )
    => /\ Last.err = "nil"
       /\ PrimarySet(v1Peer)
       /\ PrimaryCIDR(v1Peer) = lastIn.IPBlocks[1].CIDR
       /\ V1CIDRs(v1Peer) = CIDRsOf(lastIn.IPBlocks)

\* C4: internal to external and back to internal, both conversions returning
\* success, gives back the original internal list.
C4_RoundTripKeepsInternalList ==
    ( /\ RoundTrip("toV1", "toNetworking")
      /\ trace[1].err = "nil"
      /\ trace[2].err = "nil" )
    => CIDRsOf(netPeer.IPBlocks) = CIDRsOf(input.net.IPBlocks)

\* C5: whenever the baseline copy succeeds, the conversion returns success.
C5_ConversionsAreTotal ==
    (Called /\ Last.auto = "nil") => Last.err = "nil"

\* C6: external to internal, singular field with a non-empty CIDR and an
\* empty list: the result is the one-element list holding that CIDR.
C6_PrimaryOnlyBecomesList ==
    ( /\ Copied("toNetworking")
      /\ HasPrimary(lastIn)
      /\ Len(lastIn.IPBlocks) = 0 )
    => /\ Last.err = "nil"
       /\ CIDRsOf(netPeer.IPBlocks) = <<PrimaryCIDR(lastIn)>>

C6_Witness ==
    /\ Converted("toNetworking")
    /\ HasPrimary(lastIn)
    /\ lastIn.IPBlocks = <<>>
    /\ netPeer.IPBlocks = <<IPBlockOf(PrimaryCIDR(lastIn))>>

\* C7: external to internal, singular field with an empty CIDR: the result is
\* the input list verbatim, the empty list when the input list is empty.
C7_EmptyPrimaryKeepsList ==
    ( /\ Copied("toNetworking")
      /\ PrimarySet(lastIn)
      /\ PrimaryCIDR(lastIn) = "" )
    => /\ Last.err = "nil"
       /\ CIDRsOf(netPeer.IPBlocks) = V1CIDRs(lastIn)

C7_Witness ==
    /\ Converted("toNetworking")
    /\ PrimarySet(lastIn)
    /\ PrimaryCIDR(lastIn) = ""
    /\ lastIn.IPBlocks = <<>>
    /\ netPeer.IPBlocks = <<>>

\* C8: internal to external, empty list: the conversion succeeds, the
\* result's singular field is empty and the result's list is empty.
C8_EmptyListLeavesPrimaryEmpty ==
    ( /\ Copied("toV1")
      /\ Len(lastIn.IPBlocks) = 0 )
    => /\ Last.err = "nil"
       /\ v1Peer.IPBlocks = <<>>
       /\ (PrimarySet(v1Peer) => PrimaryCIDR(v1Peer) = "")

C8_Witness ==
    /\ Converted("toV1")
    /\ lastIn.IPBlocks = <<>>
    /\ v1Peer.IPBlocks = <<>>
    /\ ~PrimarySet(v1Peer)

\* C9: external to internal and back to external yields an external peer
\* whose singular field holds the first block's CIDR whenever its list is
\* non-empty, whose CIDRs all occurred in the input, and whose list keeps
\* the input's order.
C9_RoundTripNormalizes ==
    RoundTrip("toNetworking", "toV1")
    => /\ trace[2].err = "nil"
       /\ Len(v1Peer.IPBlocks) > 0 =>
             PrimarySet(v1Peer) /\ PrimaryCIDR(v1Peer) = V1CIDRs(v1Peer)[1]
       /\ V1PeerCIDRs(v1Peer) \subseteq V1PeerCIDRs(input.v1)
       /\ IsSubseq(V1CIDRs(v1Peer), <<PrimaryCIDR(input.v1)>> \o V1CIDRs(input.v1))

\* C10: when the baseline copy fails, the conversion returns that failure
\* and the output is exactly as the baseline copy left it.
C10_FailurePropagatesWithoutOverlay ==
    (Called /\ Last.auto # "nil")
    => /\ Last.err = Last.auto
       /\ Last.op = "toNetworking" => netPeer = baseline
       /\ Last.op = "toV1" => v1Peer = baseline

C10_Witness ==
    /\ LastWas("toNetworking")
    /\ Last.auto \in AutoConvertErrors
    /\ Last.err = Last.auto
    /\ HasPrimary(lastIn)
    /\ lastIn.IPBlocks = <<>>
    /\ netPeer.IPBlocks = <<>>

\* ====================================================== record_flags.go
\* ChangeCauseAnnotation, line 34
ChangeCauseAnnotation == "kubernetes.io/change-cause"
\* some other annotation an object may carry
OtherAnnotation == "app"

\* a *bool: nil, or a pointer to a bool
NilBool == <<>>
BoolPtr(b) == <<b>>
Deref(p) == p[1]
BoolPtrs == {NilBool, BoolPtr(TRUE), BoolPtr(FALSE)}

\* the []byte(nil) that MakeRecordMergePatch returns when there is nothing to patch
NilPatch == [kind |-> "nil"]
\* a merge patch document, by the annotations it sets
PatchOf(annotations) == [kind |-> "json", annotations |-> annotations]

\* ------------------------------------------------------ the command line
\* os.Args[0], a path: filepath.Base keeps its last element
Program(dir, base) == [kind |-> "program", dir |-> dir, base |-> base]
\* a positional argument
Arg(text) == [kind |-> "arg", text |-> text]
\* --name=value
Flag(name, value) == [kind |-> "flag", name |-> name, value |-> value]
\* --name, which for a bool flag means --name=true (pflag's NoOptDefVal)
BareFlag(name) == [kind |-> "flag", name |-> name, value |-> "", bare |-> TRUE]

IsFlag(t) == t.kind = "flag"
IsBare(t) == IsFlag(t) /\ "bare" \in DOMAIN t
\* the value pflag hands on for a flag token
FlagValue(t) == IF IsBare(t) THEN "true" ELSE t.value

\* the command lines of the tests (record_flags_test.go:50, 73, 98), the same
\* with the flag written bare, before the argument, or run by path, and the
\* empty os.Args of line 191
CommandLines ==
    { <<>>,
      <<Program("", "change_cmd"), Arg("some_argument")>>,
      <<Program("", "change_cmd"), Arg("some_argument"), Flag("record", "true")>>,
      <<Program("", "change_cmd"), Arg("some_argument"), Flag("record", "false")>>,
      <<Program("", "change_cmd"), Arg("some_argument"), BareFlag("record")>>,
      <<Program("/usr/bin/", "change_cmd"), Flag("record", "false"), Arg("some_argument")>> }

\* filepath.Base(os.Args[0]), line 216
Base(program) == program.base

\* the "record" tokens of a command line, in order
RECURSIVE RecordFlagTokens(_)
RecordFlagTokens(tokens) ==
    IF tokens = <<>> THEN <<>>
    ELSE IF IsFlag(Head(tokens)) /\ Head(tokens).name = "record"
         THEN <<Head(tokens)>> \o RecordFlagTokens(Tail(tokens))
         ELSE RecordFlagTokens(Tail(tokens))

\* the command line names a flag the flag set does not define: parsing fails
UnknownFlag(tokens, fl) ==
    \E i \in 1..Len(tokens) :
        IsFlag(tokens[i]) /\ ~(tokens[i].name = "record" /\ fl.defined)

\* parseFunc, lines 196-204, over every flag of the command line: " --name=value"
RECURSIVE FlagsString(_)
FlagsString(tokens) ==
    IF tokens = <<>> THEN ""
    ELSE IF IsFlag(Head(tokens))
         THEN " --" \o Head(tokens).name \o "=" \o FlagValue(Head(tokens))
                 \o FlagsString(Tail(tokens))
         ELSE FlagsString(Tail(tokens))

\* lines 211-214: " " + strings.Join(cmd.Flags().Args(), " ")
RECURSIVE ArgsString(_)
ArgsString(tokens) ==
    IF tokens = <<>> THEN ""
    ELSE IF Head(tokens).kind = "arg"
         THEN " " \o Head(tokens).text \o ArgsString(Tail(tokens))
         ELSE ArgsString(Tail(tokens))

\* parseCommandArguments, lines 190-218
parseCommandArguments(args, fl) ==
    IF Len(args) = 0 THEN ""
    ELSE IF UnknownFlag(Tail(args), fl) THEN ""
    ELSE Base(args[1]) \o ArgsString(Tail(args)) \o FlagsString(Tail(args))

\* ---------------------------------------------------------- RecordFlags
RecordFlagsOf(record, update, cause) ==
    [Record |-> record, Update |-> update, changeCause |-> cause]

\* NewRecordFlags, lines 116-124
NewRecordFlags == RecordFlagsOf(BoolPtr(FALSE), BoolPtr(TRUE), "")

\* AddFlags, lines 105-113: binds "record" to f.Record when there is a receiver
\* and a pointer to bind
AddFlags(f, fl) ==
    IF f = NilRecordFlags THEN fl
    ELSE IF f.Record # NilBool THEN [fl EXCEPT !.defined = TRUE]
    ELSE fl

\* The command parses its command line before it runs (cobra): every "record"
\* token is stored through the bound pointer and marks the flag Changed.
RECURSIVE SetFlags(_, _, _)
SetFlags(f, fl, tokens) ==
    IF tokens = <<>> THEN [rf |-> f, flags |-> fl]
    ELSE SetFlags([f EXCEPT !.Record = BoolPtr(FlagValue(Head(tokens)) = "true")],
                  [fl EXCEPT !.changed = TRUE],
                  Tail(tokens))

\* Complete, lines 78-92, without the update of line 88
Complete_KeepsUpdate(f, args, fl) ==
    IF f = NilRecordFlags THEN [rf |-> f, err |-> "nil"]
    ELSE [rf |-> [f EXCEPT !.changeCause = parseCommandArguments(args, fl)], err |-> "nil"]

\* Complete, lines 78-92.  Line 88 writes through f.Update, a nil pointer
\* dereference when the caller left Update unset.
Complete(f, args, fl) ==
    IF f = NilRecordFlags THEN [rf |-> f, err |-> "nil"]
    ELSE LET f1 == [f EXCEPT !.changeCause = parseCommandArguments(args, fl)]
         IN  IF fl.changed /\ ~Deref(f1.Record)
             THEN IF f1.Update = NilBool
                  THEN [rf |-> f1, err |-> "panic"]
                  ELSE [rf |-> [f1 EXCEPT !.Update = BoolPtr(FALSE)], err |-> "nil"]
             ELSE [rf |-> f1, err |-> "nil"]

\* ------------------------------------------------------------ recorders
NoopRecorder == [kind |-> "NoopRecorder"]
ChangeCauseRecorder(cause) == [kind |-> "ChangeCauseRecorder", changeCause |-> cause]
\* NewChangeCauseUpdateRecorder, lines 225-229
NewChangeCauseUpdateRecorder(cause) ==
    [kind |-> "ChangeCauseUpdateRecorder", changeCause |-> cause]

\* ToRecorder, lines 48-75
ToRecorder(f) ==
    IF f = NilRecordFlags THEN NoopRecorder
    ELSE LET shouldRecord == IF f.Record # NilBool THEN Deref(f.Record) ELSE FALSE
             shouldUpdate == IF f.Update # NilBool THEN Deref(f.Update) ELSE TRUE
         IN  IF ~shouldRecord
             THEN IF ~shouldUpdate
                  THEN NoopRecorder
                  ELSE NewChangeCauseUpdateRecorder(f.changeCause)
             ELSE ChangeCauseRecorder(f.changeCause)

\* -------------------------------------------------------------- objects
\* An object is known by its address in `objects`; its annotations are a
\* map from keys to strings.  (A nil map and an empty map are not told apart:
\* Record fills in a map for nil, and both marshal to the same JSON.)
NoAnnotations == [key \in {} |-> ""]

\* annotations[key] = value
WithAnnotation(annotations, key, value) ==
    [k \in DOMAIN annotations \cup {key} |->
        IF k = key THEN value ELSE annotations[k]]

\* the annotations an object starts with: the change-cause annotation absent,
\* empty, left by an earlier command (record_flags_test.go:44), or left by
\* the very command that runs now; with or without another annotation
ChangeCauses ==
    { "",
      "create_cmd some_argument --record=true",
      "change_cmd some_argument --record=true" }

ObjectInputs ==
    LET others == {NoAnnotations, WithAnnotation(NoAnnotations, OtherAnnotation, "web")}
    IN  others \cup
        { WithAnnotation(o, ChangeCauseAnnotation, c) : o \in others, c \in ChangeCauses }

\* annotationExists, lines 247-257, testing the value instead of the key
annotationExists_NonEmpty(heap, obj) ==
    /\ ChangeCauseAnnotation \in DOMAIN heap[obj]
    /\ heap[obj][ChangeCauseAnnotation] # ""

\* annotationExists, lines 247-257
annotationExists(heap, obj) == ChangeCauseAnnotation \in DOMAIN heap[obj]

\* (*ChangeCauseRecorder).Record, lines 153-165: the heap after the call
ChangeCauseRecorder_Record(r, heap, obj) ==
    [heap EXCEPT ![obj] = WithAnnotation(heap[obj], ChangeCauseAnnotation, r.changeCause)]

\* (*ChangeCauseUpdateRecorder).Record, lines 232-237
ChangeCauseUpdateRecorder_Record(r, heap, obj) ==
    IF annotationExists(heap, obj)
    THEN ChangeCauseRecorder_Record(r, heap, obj)
    ELSE heap

\* NoopRecorder.Record, lines 137-139
NoopRecorder_Record(r, heap, obj) == heap

\* Recorder.Record on whatever ToRecorder returned
Record(r, heap, obj) ==
    CASE r.kind = "NoopRecorder" -> NoopRecorder_Record(r, heap, obj)
      [] r.kind = "ChangeCauseRecorder" -> ChangeCauseRecorder_Record(r, heap, obj)
      [] r.kind = "ChangeCauseUpdateRecorder" -> ChangeCauseUpdateRecorder_Record(r, heap, obj)

\* obj.DeepCopyObject() that hands back the object itself
DeepCopyObject_Shared(heap, obj) == [heap |-> heap, obj |-> obj]

\* obj.DeepCopyObject(), line 170: a new object with the same annotations
DeepCopyObject(heap, obj) ==
    [heap |-> Append(heap, heap[obj]), obj |-> Len(heap) + 1]

\* jsonpatch.CreateMergePatch(oldData, newData), line 184, on the annotation
\* maps the two documents carry: the keys that are new or whose value changed
CreateMergePatch(old, new) ==
    [k \in {key \in DOMAIN new : key \notin DOMAIN old \/ old[key] # new[key]} |-> new[k]]

\* (*ChangeCauseRecorder).MakeRecordMergePatch, lines 168-185: the heap after
\* the call and the patch returned.  obj is marshalled after the copy was
\* recorded on.
ChangeCauseRecorder_MakeRecordMergePatch(r, heap, obj) ==
    LET copy == DeepCopyObject(heap, obj)
        after == ChangeCauseRecorder_Record(r, copy.heap, copy.obj)
    IN  [heap |-> after,
         patch |-> PatchOf(CreateMergePatch(after[obj], after[copy.obj]))]

\* (*ChangeCauseUpdateRecorder).MakeRecordMergePatch without the test of line 240
ChangeCauseUpdateRecorder_MakeRecordMergePatch_Always(r, heap, obj) ==
    ChangeCauseRecorder_MakeRecordMergePatch(r, heap, obj)

\* (*ChangeCauseUpdateRecorder).MakeRecordMergePatch, lines 239-244
ChangeCauseUpdateRecorder_MakeRecordMergePatch(r, heap, obj) ==
    IF annotationExists(heap, obj)
    THEN ChangeCauseRecorder_MakeRecordMergePatch(r, heap, obj)
    ELSE [heap |-> heap, patch |-> NilPatch]

\* NoopRecorder.MakeRecordMergePatch, lines 142-144
NoopRecorder_MakeRecordMergePatch(r, heap, obj) == [heap |-> heap, patch |-> NilPatch]

\* Recorder.MakeRecordMergePatch on whatever ToRecorder returned
MakeRecordMergePatch(r, heap, obj) ==
    CASE r.kind = "NoopRecorder" -> NoopRecorder_MakeRecordMergePatch(r, heap, obj)
      [] r.kind = "ChangeCauseRecorder" -> ChangeCauseRecorder_MakeRecordMergePatch(r, heap, obj)
      [] r.kind = "ChangeCauseUpdateRecorder" ->
            ChangeCauseUpdateRecorder_MakeRecordMergePatch(r, heap, obj)

\* ------------------------------------------------------------- behaviour
\* the object the command works on
TheObject == 1

\* A command starts with a RecordFlags value (nil, NewRecordFlags(), or one
\* built field by field as the tests do), a command line and an object.
InitRecord ==
    /\ rf \in {NilRecordFlags} \cup
              {RecordFlagsOf(record, update, "") : record \in BoolPtrs, update \in BoolPtrs}
    /\ osArgs \in CommandLines
    /\ flags = [defined |-> FALSE, changed |-> FALSE, executed |-> FALSE]
    /\ \E annotations \in ObjectInputs : objects = <<annotations>>
    /\ recorder = [kind |-> "none"]
    /\ patch = [kind |-> "none"]
    /\ pc = "new"
    /\ start = [rf |-> rf, annotations |-> objects[TheObject]]
    /\ v1Peer = ZeroV1Peer
    /\ netPeer = ZeroNetPeer
    /\ trace = <<>>
    /\ lastIn = ZeroNetPeer
    /\ baseline = ZeroNetPeer
    /\ input = [v1 |-> ZeroV1Peer, net |-> ZeroNetPeer]

\* rf.AddFlags(cmd)
DoAddFlags ==
    /\ pc = "new"
    /\ flags' = AddFlags(rf, flags)
    /\ pc' = "flagsAdded"
    /\ UNCHANGED <<rf, osArgs, objects, recorder, patch, start>>
    /\ UNCHANGED convVars

\* The command is executed: it parses os.Args[1:] into its flag set before
\* it runs.  A flag it does not define is a usage error and the command
\* never runs.
DoParseFlags ==
    /\ pc = "flagsAdded"
    /\ Len(osArgs) > 0
    /\ IF UnknownFlag(Tail(osArgs), flags)
       THEN /\ pc' = "usageError"
            /\ UNCHANGED <<rf, flags>>
       ELSE LET set == SetFlags(rf, flags, RecordFlagTokens(Tail(osArgs)))
            IN  /\ rf' = set.rf
                /\ flags' = [set.flags EXCEPT !.executed = TRUE]
                /\ pc' = "parsed"
    /\ UNCHANGED <<osArgs, objects, recorder, patch, start>>
    /\ UNCHANGED convVars

\* rf.Complete(cmd), after the command line was parsed or, as in the tests,
\* right after AddFlags
DoComplete ==
    /\ pc \in {"flagsAdded", "parsed"}
    /\ LET c == Complete(rf, osArgs, flags)
       IN  /\ rf' = c.rf
           /\ pc' = IF c.err = "panic" THEN "panic" ELSE "completed"
    /\ UNCHANGED <<osArgs, flags, objects, recorder, patch, start>>
    /\ UNCHANGED convVars

\* rec, err := rf.ToRecorder()
DoToRecorder ==
    /\ pc = "completed"
    /\ recorder' = ToRecorder(rf)
    /\ pc' = "ready"
    /\ UNCHANGED <<rf, osArgs, flags, objects, patch, start>>
    /\ UNCHANGED convVars

\* rec.Record(object)
DoRecord ==
    /\ pc = "ready"
    /\ objects' = Record(recorder, objects, TheObject)
    /\ pc' = "recorded"
    /\ UNCHANGED <<rf, osArgs, flags, recorder, patch, start>>
    /\ UNCHANGED convVars

\* patch, _ := rec.MakeRecordMergePatch(object)
DoMakeRecordMergePatch ==
    /\ pc = "ready"
    /\ LET m == MakeRecordMergePatch(recorder, objects, TheObject)
       IN  /\ objects' = m.heap
           /\ patch' = m.patch
    /\ pc' = "patched"
    /\ UNCHANGED <<rf, osArgs, flags, recorder, start>>
    /\ UNCHANGED convVars

NextRecord ==
    \/ DoAddFlags
    \/ DoParseFlags
    \/ DoComplete
    \/ DoToRecorder
    \/ DoRecord
    \/ DoMakeRecordMergePatch

SpecRecord == InitRecord /\ [][NextRecord]_vars

\* ---------------------------------------------------------- vocabulary
\* annotations[ChangeCauseAnnotation] as Go reads a map: "" when absent
ChangeCauseOf(annotations) ==
    IF ChangeCauseAnnotation \in DOMAIN annotations
    THEN annotations[ChangeCauseAnnotation]
    ELSE ""
HasChangeCause(annotations) == ChangeCauseAnnotation \in DOMAIN annotations

\* the change-cause annotation is the same in both maps, absent or with the same value
SameChangeCause(a, b) ==
    /\ HasChangeCause(a) <=> HasChangeCause(b)
    /\ ChangeCauseOf(a) = ChangeCauseOf(b)

\* the string of the command that runs now
CurrentCommand == parseCommandArguments(osArgs, flags)

\* both flags are set, as in the tests: record and update are plain booleans
BothFlagsSet == rf # NilRecordFlags /\ rf.Record # NilBool /\ rf.Update # NilBool

\* the patch sets the change-cause annotation to `cause`
PatchCarries(cause) ==
    /\ patch.kind = "json"
    /\ HasChangeCause(patch.annotations)
    /\ patch.annotations[ChangeCauseAnnotation] = cause

\* the patch sets no change-cause annotation
PatchCarriesNothing ==
    patch.kind = "json" => ~HasChangeCause(patch.annotations)

\* C11: after AddFlags, Complete, ToRecorder, Record(object) the object's
\* change-cause annotation is the current command string if record is true, or
\* if update is true and the object had a non-empty change-cause annotation;
\* otherwise it is what it was before.
C11_RecordNonEmptyOnly ==
    (pc = "recorded" /\ BothFlagsSet)
    => IF Deref(rf.Record)
          \/ (Deref(rf.Update) /\ ChangeCauseOf(start.annotations) # "")
       THEN /\ HasChangeCause(objects[TheObject])
            /\ ChangeCauseOf(objects[TheObject]) = CurrentCommand
       ELSE SameChangeCause(objects[TheObject], start.annotations)

\* C11, amended: ... or if update is true and the object had a change-cause
\* annotation, empty or not; otherwise it is what it was before.
C11_RecordWhenPresent ==
    (pc = "recorded" /\ BothFlagsSet)
    => IF Deref(rf.Record)
          \/ (Deref(rf.Update) /\ HasChangeCause(start.annotations))
       THEN /\ HasChangeCause(objects[TheObject])
            /\ ChangeCauseOf(objects[TheObject]) = CurrentCommand
       ELSE SameChangeCause(objects[TheObject], start.annotations)

C11_Witness ==
    /\ pc = "recorded"
    /\ BothFlagsSet
    /\ ~Deref(rf.Record)
    /\ Deref(rf.Update)
    /\ HasChangeCause(start.annotations)
    /\ ChangeCauseOf(start.annotations) = ""
    /\ CurrentCommand # ""
    /\ ChangeCauseOf(objects[TheObject]) = CurrentCommand

\* C12: the patch of MakeRecordMergePatch carries the change-cause annotation
\* set to the current command string if record is true, or if update is true
\* and the object had a non-empty change-cause annotation; otherwise it
\* carries no change-cause annotation.
C12_PatchCarriesCommand ==
    (pc = "patched" /\ BothFlagsSet)
    => IF Deref(rf.Record)
          \/ (Deref(rf.Update) /\ ChangeCauseOf(start.annotations) # "")
       THEN PatchCarries(CurrentCommand)
       ELSE PatchCarriesNothing

\* C12, amended: the patch carries the change-cause annotation set to the
\* current command string if record is true, or if update is true and the
\* object had a change-cause annotation, empty or not, unless the object's
\* change-cause annotation already is the current command string; in that
\* case and in every other case it carries no change-cause annotation.
C12_PatchCarriesChangedCommand ==
    (pc = "patched" /\ BothFlagsSet)
    => IF /\ Deref(rf.Record)
             \/ (Deref(rf.Update) /\ HasChangeCause(start.annotations))
          /\ ~( /\ HasChangeCause(start.annotations)
                /\ ChangeCauseOf(start.annotations) = CurrentCommand )
       THEN PatchCarries(CurrentCommand)
       ELSE PatchCarriesNothing

C12_Witness ==
    /\ pc = "patched"
    /\ BothFlagsSet
    /\ Deref(rf.Record)
    /\ CurrentCommand # ""
    /\ HasChangeCause(start.annotations)
    /\ ChangeCauseOf(start.annotations) = CurrentCommand
    /\ patch = PatchOf(NoAnnotations)

\* the value of the last --record on the command line
LastRecordValue ==
    LET tokens == RecordFlagTokens(Tail(osArgs))
    IN  FlagValue(tokens[Len(tokens)])
RecordGiven == Len(osArgs) > 0 /\ RecordFlagTokens(Tail(osArgs)) # <<>>

\* C13: from NewRecordFlags(), after AddFlags, the parse of the command line
\* and Complete, ToRecorder returns a ChangeCauseRecorder when --record (true)
\* was given, a ChangeCauseUpdateRecorder when the flag was omitted, and a
\* NoopRecorder when --record=false was given, update then being false; a nil
\* RecordFlags yields a NoopRecorder.
C13_RecorderByTriState ==
    /\ (pc = "ready" /\ start.rf = NewRecordFlags /\ flags.executed)
       => IF ~RecordGiven
          THEN recorder.kind = "ChangeCauseUpdateRecorder"
          ELSE IF LastRecordValue = "true"
          THEN recorder.kind = "ChangeCauseRecorder"
          ELSE /\ recorder.kind = "NoopRecorder"
               /\ rf.Update = BoolPtr(FALSE)
    /\ (pc = "ready" /\ start.rf = NilRecordFlags)
       => recorder = NoopRecorder

C13_Witness ==
    /\ pc = "ready"
    /\ start.rf = NewRecordFlags
    /\ flags.executed
    /\ RecordGiven
    /\ LastRecordValue = "false"
    /\ recorder = NoopRecorder
    /\ rf.Update = BoolPtr(FALSE)

\* C14: MakeRecordMergePatch leaves the object it is given as it was, for
\* every kind of recorder, whether or not it returns a patch.
C14_PatchLeavesObject ==
    pc = "patched" => objects[TheObject] = start.annotations

C14_Witness ==
    /\ pc = "patched"
    /\ recorder.kind = "ChangeCauseRecorder"
    /\ ~HasChangeCause(start.annotations)
    /\ CurrentCommand # ""
    /\ PatchCarries(CurrentCommand)
    /\ objects[TheObject] = start.annotations

====
